---- MODULE Spec2Model ----
(***************************************************************************)
(* Model of app_distribuicao.py: the Streamlit dashboard that lists the    *)
(* open 'Verificar' activities with the history of their folder.           *)
(*                                                                         *)
(* One behaviour is one browser session against one snapshot of the view   *)
(* ViewGrdAtividadesTarcisio.  One step is one run of main() (one render   *)
(* cycle), from its first line to st.stop(), st.rerun(), an uncaught       *)
(* exception or the end of the loop over the open activities.              *)
(*                                                                         *)
(* st.cache_resource and st.cache_data memoise db_engine_mysql and the      *)
(* loader.  The view does not change within a behaviour, so a memoised      *)
(* frame equals a fresh one and a memoised failure shows as a failure of    *)
(* the later cycle; both functions are evaluated at each call, and queries  *)
(* counts one query per call of the loader.  The loader's branch for        *)
(* _eng is None (lines 74-75) is not reachable from main(), which stops at  *)
(* line 160.                                                                *)
(*                                                                         *)
(* Values: folders, assignees and days are small integers compared the way *)
(* the strings/dates they stand for compare; NULL and NaT stand for SQL    *)
(* NULL / None / NaN and pandas NaT.  activity_date values are at midnight,*)
(* so DATE(activity_date) is the day itself.  Texts are sequences of       *)
(* one-character strings.                                                  *)
(***************************************************************************)
EXTENDS Integers, Sequences, FiniteSets, TLC

\* ---------------------------------------------------------------- bounds
MaxRows == 2        \* rows in the view
MaxDate == 2        \* days 1..MaxDate

\* ---------------------------------------------------------------- values
NULL == 0           \* SQL NULL / None / NaN in a folder or assignee column
NaT == 0            \* missing or unparseable activity_date after coercion
None == "None"      \* st.session_state[USERNAME_KEY] = None
NullText == <<"NULL">>   \* a NULL Texto in the view (no character is "NULL")

USERNAME_KEY == "username_distro_app"

Days == 1..MaxDate
Folders == {1, 2}
Users == {1, 2}

\* st.secrets["credentials"]["usernames"]
user_creds == [u \in {"ana"} |-> "s1"]
TypedNames == {"ana", "eve"}
TypedPasswords == {"s1", "s2"}

\* what the operator types in "Buscar no Texto": nothing, a letter, the
\* regular-expression wildcard, or an unbalanced parenthesis
Patterns == {<< >>, <<"a">>, <<".">>, <<"(">>}

Columns == <<"activity_id", "activity_folder", "user_profile_name",
             "activity_date", "activity_status", "Texto">>

Row(f, u, d, s, t, x) ==
    [activity_folder |-> f, user_profile_name |-> u, activity_date |-> d,
     activity_status |-> s, activity_type |-> t, Texto |-> x]

\* The rows a view is drawn from.
RowDomain ==
    \* open 'Verificar' activities: every folder, assignee and day, dated or not
    {Row(f, u, d, "Aberta", "Verificar", <<"A">>) :
        f \in Folders, u \in Users, d \in {NULL} \cup Days}
    \* ... without an assignee, without a folder, without text
    \cup {Row(1, NULL, 1, "Aberta", "Verificar", <<"A">>),
          Row(NULL, 1, 1, "Aberta", "Verificar", <<"A">>),
          Row(1, 1, 1, "Aberta", "Verificar", NullText)}
    \* closed 'Verificar' activities
    \cup {Row(f, 2, d, "Concluida", "Verificar", <<"b">>) :
        f \in Folders, d \in Days}
    \cup {Row(1, 2, NULL, "Concluida", "Verificar", <<"b">>),
          Row(NULL, 2, 1, "Concluida", "Verificar", <<"b">>)}
    \* an open activity of another type
    \cup {Row(1, 1, 1, "Aberta", "Outro", <<"A">>)}

VARIABLES
    view,                  \* rows of ViewGrdAtividadesTarcisio, with activity_id
    username,              \* st.session_state[USERNAME_KEY]
    login,                 \* the login form as submitted in this cycle
    data_inicio, data_fim, \* the date inputs of this cycle
    pastas_selecionadas, usuarios_selecionados, texto_busca,
    db,                    \* what the database did in this cycle
    loaderCalled,          \* carregar_dados_contextuais was called in this cycle
    queries,               \* queries issued in this cycle
    df_contexto_total,     \* the loader's result in this cycle
    messages,              \* st.error / st.warning / st.info / st.success shown
    metric,                \* st.metric: << >> when not shown, <<n>> when shown
    groups,                \* the expanders emitted, in order
    outcome                \* how the cycle ended

vars == <<view, username, login, data_inicio, data_fim, pastas_selecionadas,
          usuarios_selecionados, texto_busca, db, loaderCalled, queries,
          df_contexto_total, messages, metric, groups, outcome>>

\* ------------------------------------------------------- pandas helpers
\* DataFrame.sort_values on few rows: a stable sort.  before holds the pairs
\* <<i, j>> of positions such that row i has to come before row j.
SortValues(s, before) ==
    LET Precedes(j, i) == \/ <<j, i>> \in before
                          \/ (<<i, j>> \notin before /\ j < i)
        Pos(i) == 1 + Cardinality({j \in DOMAIN s : j # i /\ Precedes(j, i)})
    IN  [k \in DOMAIN s |-> s[CHOOSE i \in DOMAIN s : Pos(i) = k]]

\* ascending key, missing values last (na_position='last')
AscBefore(x, y) == x # NULL /\ (y = NULL \/ x < y)
\* descending date key, NaT last
DescBefore(x, y) == x # NaT /\ (y = NaT \/ x > y)

\* str.lower of one character
Lower(c) == IF c = "A" THEN "a" ELSE IF c = "B" THEN "b" ELSE c

\* re.compile(pat): an unbalanced parenthesis raises re.error
re_compiles(pat) == \A i \in DOMAIN pat : pat[i] # "("

\* re.search(pat, text, IGNORECASE): "." matches any character
re_search(pat, text) ==
    \E i \in 1..(Len(text) - Len(pat) + 1) :
        \A k \in DOMAIN pat :
            pat[k] = "." \/ Lower(pat[k]) = Lower(text[i + k - 1])

\* Series.str.contains(pat, case=False, na=False), regex=True by default
str_contains(text, pat) == re_search(pat, text)

\* ------------------------------------------------------------- the loader
EmptyDataFrame == [columns |-> << >>, rows |-> << >>]      \* pd.DataFrame()

\* as SqlEq, with NULL taken to equal NULL (the join written as Python "==")
SqlEq_NullsEqual(a, b) == a = b

\* SQL "=": unknown, hence not joined, when either side is NULL
SqlEq(a, b) == a # NULL /\ b # NULL /\ a = b

\* DATE(activity_date) BETWEEN :data_inicio AND :data_fim
SqlBetween(d, inicio, fim) == d # NULL /\ inicio <= d /\ d <= fim

\* the CTE PastasComAbertas
PastasComAbertas(v) ==
    {v[i].activity_folder : i \in {j \in DOMAIN v :
        v[j].activity_type = "Verificar" /\ v[j].activity_status = "Aberta"}}

\* the JOIN and the WHERE of the query
Selected(v, r, inicio, fim) ==
    /\ \E p \in PastasComAbertas(v) : SqlEq(r.activity_folder, p)
    /\ r.activity_type = "Verificar"
    /\ (r.activity_status = "Aberta" \/ SqlBetween(r.activity_date, inicio, fim))

\* astype(str) of an id: the decimal string of i, written <<i>>
astype_str(i) == <<i>>

\* pd.to_datetime(errors='coerce')
to_datetime(d) == IF d = NULL THEN NaT ELSE d

\* fillna("").astype(str)
fillna(x) == IF x = NullText THEN << >> ELSE x

\* the six selected columns of one row, normalised
Normalise(r) ==
    [activity_id |-> astype_str(r.activity_id),
     activity_folder |-> r.activity_folder,
     user_profile_name |-> r.user_profile_name,
     activity_date |-> to_datetime(r.activity_date),
     activity_status |-> r.activity_status,
     Texto |-> fillna(r.Texto)]

\* sort_values("activity_date", ascending=False)
ByDateDesc(rows) ==
    SortValues(rows, {p \in (DOMAIN rows) \X (DOMAIN rows) :
        DescBefore(rows[p[1]].activity_date, rows[p[2]].activity_date)})

read_sql(v, inicio, fim) ==
    LET hit == SelectSeq(v, LAMBDA r : Selected(v, r, inicio, fim))
    IN  [i \in DOMAIN hit |-> Normalise(hit[i])]

\* as FailedLoad, with the error swallowed: no message, and the frame a
\* query without rows returns
FailedLoad_Silent ==
    [df |-> [columns |-> Columns, rows |-> << >>], shown |-> {}]

\* pd.DataFrame() when the query raises SQLAlchemyError, with st.error
FailedLoad == [df |-> EmptyDataFrame, shown |-> {"erro_consulta"}]

\* carregar_dados_contextuais: the frame returned and the messages shown
carregar_dados_contextuais(v, inicio, fim, raises) ==
    IF raises
    THEN FailedLoad
    ELSE [df |-> [columns |-> Columns,
                  rows |-> ByDateDesc(read_sql(v, inicio, fim))],
          shown |-> {}]

\* ------------------------------------------------------------ aggregation
Empty(df) == df.rows = << >>                             \* DataFrame.empty

Abertas(rows) == SelectSeq(rows, LAMBDA r : r.activity_status = "Aberta")

lista_pastas(abertas) ==
    {abertas[i].activity_folder : i \in DOMAIN abertas} \ {NULL}

lista_responsaveis(abertas) ==
    {abertas[i].user_profile_name : i \in DOMAIN abertas} \ {NULL}

FiltroPastas(rows, pastas) ==
    IF pastas # {}
    THEN SelectSeq(rows, LAMBDA r : r.activity_folder \in pastas)
    ELSE rows

FiltroUsuarios(rows, usuarios) ==
    IF usuarios # {}
    THEN SelectSeq(rows, LAMBDA r : r.user_profile_name \in usuarios)
    ELSE rows

FiltroTexto(rows, texto) ==
    IF texto # << >>
    THEN SelectSeq(rows, LAMBDA r : str_contains(r.Texto, texto))
    ELSE rows

Filtrado(abertas, pastas, usuarios, texto) ==
    FiltroTexto(FiltroUsuarios(FiltroPastas(abertas, pastas), usuarios), texto)

\* value_counts() drops missing folders
contagem_pastas(rows, pasta) ==
    Cardinality({i \in DOMAIN rows : rows[i].activity_folder = pasta})

\* a missing folder maps to NaN, and NaN > 1 is False
alerta_pasta(rows, r) ==
    r.activity_folder # NULL /\ contagem_pastas(rows, r.activity_folder) > 1

\* as OrdemExibicao, with the folder as the first sort key
OrdemExibicao_FolderFirst(a, b) ==
    \/ AscBefore(a.activity_folder, b.activity_folder)
    \/ /\ a.activity_folder = b.activity_folder
       /\ \/ AscBefore(a.user_profile_name, b.user_profile_name)
          \/ /\ a.user_profile_name = b.user_profile_name
             /\ DescBefore(a.activity_date, b.activity_date)

\* row a comes before row b under the three sort keys of lines 195-198
OrdemExibicao(a, b) ==
    \/ AscBefore(a.user_profile_name, b.user_profile_name)
    \/ /\ a.user_profile_name = b.user_profile_name
       /\ \/ AscBefore(a.activity_folder, b.activity_folder)
          \/ /\ a.activity_folder = b.activity_folder
             /\ DescBefore(a.activity_date, b.activity_date)

\* sort_values(by=[user_profile_name, activity_folder, activity_date],
\*             ascending=[True, True, False])
Ordenado(rows) ==
    SortValues(rows, {p \in (DOMAIN rows) \X (DOMAIN rows) :
        OrdemExibicao(rows[p[1]], rows[p[2]])})

\* df_contexto_total[df_contexto_total['activity_folder'] == pasta]:
\* == against a missing value is False for every row
df_historico_pasta(rows, pasta) ==
    SelectSeq(rows, LAMBDA r : pasta # NULL /\ r.activity_folder = pasta)

\* as Group, with the folder counted over all open rows of the batch
Group_CountsAllOpen(total, filtrado, r) ==
    [activity |-> r,
     alert |-> alerta_pasta(Abertas(total), r),
     history |-> df_historico_pasta(total, r.activity_folder)]

\* as Group, with the history taken from the filtered open rows
Group_HistoryFromFiltered(total, filtrado, r) ==
    [activity |-> r,
     alert |-> alerta_pasta(filtrado, r),
     history |-> df_historico_pasta(filtrado, r.activity_folder)]

\* one expander: the open row, its flag and the history of its folder
Group(total, filtrado, r) ==
    [activity |-> r,
     alert |-> alerta_pasta(filtrado, r),
     history |-> df_historico_pasta(total, r.activity_folder)]

\* NaT.strftime raises ValueError: the loop ends at the first such row
Exibidos(ordenado) ==
    LET bad == {i \in DOMAIN ordenado : ordenado[i].activity_date = NaT}
    IN  IF bad = {} THEN ordenado
        ELSE SubSeq(ordenado, 1, (CHOOSE i \in bad : \A j \in bad : i <= j) - 1)

\* ------------------------------------------------------------------ state
\* The view is a relation: the order of its rows carries no information, so
\* the rows are taken in one fixed order of RowDomain (RowCode ascending) and
\* numbered in that order.
RowCode(r) ==
    LET s == IF r.activity_status = "Aberta" THEN 0 ELSE 1
        t == IF r.activity_type = "Verificar" THEN 0 ELSE 1
        x == IF r.Texto = <<"A">> THEN 0 ELSE IF r.Texto = <<"b">> THEN 1 ELSE 2
    IN  ((((r.activity_folder * 3 + r.user_profile_name) * (MaxDate + 1)
            + r.activity_date) * 2 + s) * 2 + t) * 3 + x

Views ==
    {v \in UNION {[1..n -> RowDomain] : n \in 0..MaxRows} :
        \A i \in DOMAIN v : \A j \in DOMAIN v :
            i < j => RowCode(v[i]) <= RowCode(v[j])}

\* rows of the view carry their activity_id, unique per row
WithIds(v) ==
    [i \in DOMAIN v |->
        [activity_id |-> i,
         activity_folder |-> v[i].activity_folder,
         user_profile_name |-> v[i].user_profile_name,
         activity_date |-> v[i].activity_date,
         activity_status |-> v[i].activity_status,
         activity_type |-> v[i].activity_type,
         Texto |-> v[i].Texto]]

NoForm == [submitted |-> FALSE, username |-> "", password |-> ""]

Init ==
    /\ view \in {WithIds(v) : v \in Views}
    /\ username = None
    /\ login = NoForm
    /\ data_inicio = NULL /\ data_fim = NULL
    /\ pastas_selecionadas = {} /\ usuarios_selecionados = {}
    /\ texto_busca = << >>
    /\ db = "none"
    /\ loaderCalled = FALSE
    /\ queries = 0
    /\ df_contexto_total = EmptyDataFrame
    /\ messages = {}
    /\ metric = << >>
    /\ groups = << >>
    /\ outcome = "running"

\* what a cycle leaves when it ends before the filters are read
NoFilters ==
    /\ pastas_selecionadas' = {} /\ usuarios_selecionados' = {}
    /\ texto_busca' = << >>

\* what a cycle leaves when it ends before the loader is called
NoLoad ==
    /\ loaderCalled' = FALSE /\ queries' = 0
    /\ df_contexto_total' = EmptyDataFrame

\* what a cycle leaves when it emits nothing
NoOutput == metric' = << >> /\ groups' = << >>

\* ----------------------------------------------------------------- main()
\* as CredentialsOk, without the comparison of the password
CredentialsOk_AnyPassword(u, p) == u \in DOMAIN user_creds

\* line 129: the typed user is configured and the password is the stored one
CredentialsOk(u, p) == u \in DOMAIN user_creds /\ user_creds[u] = p

\* as InvalidRange, with the comparison the wrong way round
InvalidRange_Reversed(inicio, fim) == inicio < fim

\* line 148: the start date is after the end date
InvalidRange(inicio, fim) == inicio > fim

\* lines 120-136: not logged in, the form is not submitted or is refused
LoginStop(sub, u, p) ==
    /\ outcome = "running"
    /\ username = None
    /\ ~(sub /\ CredentialsOk(u, p))
    /\ login' = [submitted |-> sub, username |-> u, password |-> p]
    /\ messages' = (IF sub THEN {"usuario_ou_senha_invalidos"} ELSE {})
                   \cup {"bem_vindo"}
    /\ outcome' = "stop_login"
    /\ data_inicio' = NULL /\ data_fim' = NULL /\ db' = "none"
    /\ NoFilters /\ NoLoad /\ NoOutput
    /\ UNCHANGED <<view, username>>

\* lines 126-131: the form is submitted with a configured user and its password
LoginRerun(u, p) ==
    /\ outcome = "running"
    /\ username = None
    /\ CredentialsOk(u, p)
    /\ login' = [submitted |-> TRUE, username |-> u, password |-> p]
    /\ username' = u
    /\ messages' = {}
    /\ outcome' = "rerun_login"
    /\ data_inicio' = NULL /\ data_fim' = NULL /\ db' = "none"
    /\ NoFilters /\ NoLoad /\ NoOutput
    /\ UNCHANGED view

\* lines 148-150
RangeStop(inicio, fim) ==
    /\ outcome = "running"
    /\ username # None
    /\ InvalidRange(inicio, fim)
    /\ login' = NoForm
    /\ data_inicio' = inicio /\ data_fim' = fim
    /\ messages' = {"data_inicio_posterior"}
    /\ outcome' = "stop_range"
    /\ db' = "none"
    /\ NoFilters /\ NoLoad /\ NoOutput
    /\ UNCHANGED <<view, username>>

\* lines 152-155: the reload button
ReloadRerun(inicio, fim) ==
    /\ outcome = "running"
    /\ username # None
    /\ ~InvalidRange(inicio, fim)
    /\ login' = NoForm
    /\ data_inicio' = inicio /\ data_fim' = fim
    /\ messages' = {"cache_limpo"}
    /\ outcome' = "rerun_reload"
    /\ db' = "none"
    /\ NoFilters /\ NoLoad /\ NoOutput
    /\ UNCHANGED <<view, username>>

\* lines 157-160: db_engine_mysql() returned None
EngineStop(inicio, fim) ==
    /\ outcome = "running"
    /\ username # None
    /\ ~InvalidRange(inicio, fim)
    /\ login' = NoForm
    /\ data_inicio' = inicio /\ data_fim' = fim
    /\ messages' = {"erro_conexao", "nao_conectada"}
    /\ outcome' = "stop_engine"
    /\ db' = "no_engine"
    /\ NoFilters /\ NoLoad /\ NoOutput
    /\ UNCHANGED <<view, username>>

\* lines 162-166: the loader returned an empty frame
EmptyStop(inicio, fim, raises) ==
    LET loaded == carregar_dados_contextuais(view, inicio, fim, raises) IN
    /\ outcome = "running"
    /\ username # None
    /\ ~InvalidRange(inicio, fim)
    /\ Empty(loaded.df)
    /\ login' = NoForm
    /\ data_inicio' = inicio /\ data_fim' = fim
    /\ db' = (IF raises THEN "query_error" ELSE "ok")
    /\ loaderCalled' = TRUE /\ queries' = 1
    /\ df_contexto_total' = loaded.df
    /\ messages' = loaded.shown \cup {"nenhuma_atividade"}
    /\ outcome' = "stop_empty"
    /\ NoFilters /\ NoOutput
    /\ UNCHANGED <<view, username>>

\* line 187: re.compile of the search text raises re.error
RegexRaise(pastas, usuarios, texto) ==
    /\ texto # << >> /\ ~re_compiles(texto)
    /\ pastas_selecionadas' = pastas /\ usuarios_selecionados' = usuarios
    /\ texto_busca' = texto
    /\ outcome' = "re.error"
    /\ NoOutput

\* lines 168-267: filter, flag, sort, count, and one expander per open row
Render(loaded, pastas, usuarios, texto) ==
    LET total == loaded.df.rows
        abertas == Abertas(total)
        filtrado == Filtrado(abertas, pastas, usuarios, texto)
        ordenado == Ordenado(filtrado)
        exibidos == Exibidos(ordenado) IN
    /\ texto = << >> \/ re_compiles(texto)
    /\ pastas_selecionadas' = pastas /\ usuarios_selecionados' = usuarios
    /\ texto_busca' = texto
    /\ metric' = <<Len(ordenado)>>
    /\ groups' = [i \in DOMAIN exibidos |-> Group(total, filtrado, exibidos[i])]
    /\ outcome' = (IF Len(exibidos) < Len(ordenado) THEN "ValueError" ELSE "done")

\* lines 138-267: logged in, a valid range, an engine and a frame with rows;
\* the multiselects offer the folders and assignees of the open rows
Listing(inicio, fim) ==
    /\ outcome = "running"
    /\ username # None
    /\ ~InvalidRange(inicio, fim)
    /\ LET loaded == carregar_dados_contextuais(view, inicio, fim, FALSE)
           abertas == Abertas(loaded.df.rows) IN
       /\ ~Empty(loaded.df)
       /\ login' = NoForm
       /\ data_inicio' = inicio /\ data_fim' = fim
       /\ db' = "ok"
       /\ loaderCalled' = TRUE /\ queries' = 1
       /\ df_contexto_total' = loaded.df
       /\ messages' = loaded.shown
       /\ \E pastas \in SUBSET lista_pastas(abertas),
             usuarios \in SUBSET lista_responsaveis(abertas),
             texto \in Patterns :
              \/ RegexRaise(pastas, usuarios, texto)
              \/ Render(loaded, pastas, usuarios, texto)
       /\ UNCHANGED <<view, username>>

\* lines 269-270: every interaction (and st.rerun()) runs the script again from
\* the top, on a page cleared of the previous run's elements
Rerun ==
    /\ outcome # "running"
    /\ outcome' = "running"
    /\ login' = NoForm
    /\ data_inicio' = NULL /\ data_fim' = NULL /\ db' = "none"
    /\ messages' = {}
    /\ NoFilters /\ NoLoad /\ NoOutput
    /\ UNCHANGED <<view, username>>

Next ==
    \/ Rerun
    \/ \E sub \in BOOLEAN, u \in TypedNames, p \in TypedPasswords :
           LoginStop(sub, u, p)
    \/ \E u \in TypedNames, p \in TypedPasswords : LoginRerun(u, p)
    \/ \E inicio \in Days, fim \in Days : RangeStop(inicio, fim)
    \/ \E inicio \in Days, fim \in Days : ReloadRerun(inicio, fim)
    \/ \E inicio \in Days, fim \in Days : EngineStop(inicio, fim)
    \/ \E inicio \in Days, fim \in Days, raises \in BOOLEAN :
           EmptyStop(inicio, fim, raises)
    \/ \E inicio \in Days, fim \in Days : Listing(inicio, fim)

Spec == Init /\ [][Next]_vars

\* ================================================================ claims
Rows(s) == {s[i] : i \in DOMAIN s}

Total == Rows(df_contexto_total.rows)

OpenRows == {r \in Total : r.activity_status = "Aberta"}

\* the cycle reached the listing (line 201 and after)
Listed == outcome \in {"done", "ValueError"}

\* r passed the three filters as this cycle applied them
Passed(r) ==
    /\ pastas_selecionadas = {} \/ r.activity_folder \in pastas_selecionadas
    /\ usuarios_selecionados = {} \/ r.user_profile_name \in usuarios_selecionados
    /\ texto_busca = << >> \/ str_contains(r.Texto, texto_busca)

\* texto occurs in text, letter case ignored (a plain substring, no wildcard)
Substring(texto, text) ==
    \E i \in 1..(Len(text) - Len(texto) + 1) :
        \A k \in DOMAIN texto : Lower(texto[k]) = Lower(text[i + k - 1])

\* r passes the three filters as the specification states them
PassesSpecFilters(r) ==
    /\ pastas_selecionadas = {} \/ r.activity_folder \in pastas_selecionadas
    /\ usuarios_selecionados = {} \/ r.user_profile_name \in usuarios_selecionados
    /\ texto_busca = << >> \/ Substring(texto_busca, r.Texto)

SameFolderOpen(g) ==
    {r \in OpenRows : r.activity_folder = g.activity.activity_folder}

\* C1: every emitted open row is flagged exactly when more than one open row
\* that passed the filters shares its folder (the count is taken after the
\* filters, not over all open rows of the batch).
C1_AlertCountsFilteredRows ==
    \A i \in DOMAIN groups :
        groups[i].alert <=>
            Cardinality({r \in SameFolderOpen(groups[i]) : Passed(r)}) > 1

\* C1 witness: a row is emitted without the flag although its folder holds
\* two open rows in the batch (a filter removed the other one).
C1_Witness ==
    \E i \in DOMAIN groups :
        /\ ~groups[i].alert
        /\ Cardinality(SameFolderOpen(groups[i])) > 1

\* C2: the history of every emitted group holds every batch row of its
\* folder, whatever the filters select.
C2_HistoryIgnoresFilters ==
    \A i \in DOMAIN groups :
        \A r \in Total :
            r.activity_folder = groups[i].activity.activity_folder
                => r \in Rows(groups[i].history)

\* C2 witness: with an assignee filter and a text filter set, a history holds
\* a row of an assignee that is not selected and whose text does not match.
C2_Witness ==
    \E i \in DOMAIN groups :
        \E h \in Rows(groups[i].history) :
            /\ usuarios_selecionados # {}
            /\ h.user_profile_name \notin usuarios_selecionados
            /\ texto_busca # << >>
            /\ ~str_contains(h.Texto, texto_busca)

C4_OrderedByAssigneeFolderRecency ==
    \A i \in DOMAIN groups : \A j \in DOMAIN groups :
        i < j =>
            LET a == groups[i].activity
                b == groups[j].activity IN
            /\ a.user_profile_name = NULL => b.user_profile_name = NULL
            /\ (b.user_profile_name # NULL
                    /\ a.user_profile_name # b.user_profile_name)
                  => a.user_profile_name < b.user_profile_name
            /\ (a.user_profile_name = b.user_profile_name
                    /\ a.activity_folder # b.activity_folder)
                  => a.activity_folder < b.activity_folder
            /\ (a.user_profile_name = b.user_profile_name
                    /\ a.activity_folder = b.activity_folder)
                  => a.activity_date >= b.activity_date

\* C4 witness: the first emitted row has the smaller assignee although its
\* folder is greater and its timestamp older than the second row's.
C4_Witness ==
    /\ Len(groups) >= 2
    /\ groups[1].activity.user_profile_name # NULL
    /\ groups[1].activity.user_profile_name < groups[2].activity.user_profile_name
    /\ groups[1].activity.activity_folder > groups[2].activity.activity_folder
    /\ groups[1].activity.activity_date < groups[2].activity.activity_date

\* C5: an open row without a timestamp does not make the cycle raise: it is
\* emitted, after every dated row of its assignee and folder.
C5_MissingTimestampEmittedLast ==
    Listed =>
        \A r \in OpenRows :
            (Passed(r) /\ r.activity_date = NaT) =>
                /\ outcome = "done"
                /\ \E i \in DOMAIN groups :
                    /\ groups[i].activity = r
                    /\ \A j \in DOMAIN groups :
                        (/\ groups[j].activity.user_profile_name = r.user_profile_name
                         /\ groups[j].activity.activity_folder = r.activity_folder
                         /\ groups[j].activity.activity_date # NaT) => j < i

ViewRows == Rows(view)

OpenVerificar(r) ==
    r.activity_type = "Verificar" /\ r.activity_status = "Aberta"

InBatch(r) == \E b \in Total : b.activity_id = astype_str(r.activity_id)

\* C6: after a successful query the batch holds every open 'Verificar'
\* activity of the view whatever its date, and a non-open 'Verificar' activity
\* exactly when its folder has an open 'Verificar' activity and its date lies
\* in [data_inicio, data_fim].
C6_BatchHoldsOpenAndWindowedHistory ==
    (loaderCalled /\ db = "ok") =>
        \A r \in ViewRows :
            /\ OpenVerificar(r) => InBatch(r)
            /\ (r.activity_type = "Verificar" /\ r.activity_status # "Aberta") =>
                (InBatch(r) <=>
                    /\ \E o \in ViewRows :
                          OpenVerificar(o) /\ o.activity_folder = r.activity_folder
                    /\ r.activity_date # NULL
                    /\ data_inicio <= r.activity_date
                    /\ r.activity_date <= data_fim)

\* C7: when the connection or the query fails, no group and no count are
\* shown, and what the cycle got and showed differs from a successful query
\* without rows (a frame with the six columns, the "nothing found" note only).
C7_FailureIsDistinctAndEmpty ==
    db \in {"query_error", "no_engine"} =>
        /\ groups = << >>
        /\ metric = << >>
        /\ outcome \in {"stop_empty", "stop_engine"}
        /\ messages # {"nenhuma_atividade"}
        /\ loaderCalled =>
               df_contexto_total # [columns |-> Columns, rows |-> << >>]

\* C7 witness: a query failed in this cycle.
C7_Witness ==
    db = "query_error" /\ loaderCalled /\ outcome = "stop_empty"

\* C8: a cycle whose start date is after its end date stops with the
\* corrective message, without calling the loader, issuing a query or emitting
\* a group.
C8_InvalidRangeStopsBeforeLoad ==
    (username # None /\ outcome # "running" /\ data_inicio > data_fim) =>
        /\ outcome = "stop_range"
        /\ "data_inicio_posterior" \in messages
        /\ ~loaderCalled
        /\ queries = 0
        /\ db = "none"
        /\ groups = << >>

\* C8 witness: a logged-in cycle with the start date after the end date.
C8_Witness ==
    username # None /\ data_inicio > data_fim /\ outcome = "stop_range"

\* C9: the emitted groups are exactly the open rows of the batch that pass
\* the supplied filters, one group each, and the displayed count is the
\* number of groups.
C9_GroupsAreThePassingOpenRows ==
    Listed =>
        /\ \A i \in DOMAIN groups : groups[i].activity.activity_status = "Aberta"
        /\ {groups[i].activity : i \in DOMAIN groups}
              = {r \in OpenRows : PassesSpecFilters(r)}
        /\ \A i \in DOMAIN groups : \A j \in DOMAIN groups :
              groups[i].activity = groups[j].activity => i = j
        /\ metric = <<Len(groups)>>

\* C10: the loader is called and groups are emitted only while the session
\* has a username; the username is set only by a cycle whose login form was
\* submitted with a configured user and the password stored for it; once
\* set it never changes.
C10_OnlyAuthenticatedSessionsLoad ==
    /\ []((loaderCalled \/ queries > 0 \/ groups # << >> \/ metric # << >>)
             => username # None)
    /\ [][username' # username =>
            /\ username = None
            /\ login'.submitted
            /\ login'.username \in DOMAIN user_creds
            /\ user_creds[login'.username] = login'.password
            /\ username' = login'.username]_vars

\* C10 witness: a logged-in session has emitted a group.
C10_Witness ==
    username # None /\ groups # << >> /\ loaderCalled

====
